---- MODULE Spec2Model ----
(***************************************************************************)
(* State-machine model of server.js (Express + Mongoose student            *)
(* registration backend).  Strings are sequences of one-character strings, *)
(* the empty sequence is the empty (or missing) string.  Every await of a  *)
(* handler is a point where other requests may interleave, so a handler is *)
(* one action per database call.                                           *)
(***************************************************************************)
EXTENDS Integers, Sequences, FiniteSets, TLC

\* ------------------------------------------------------------------ bounds
MaxReqs == 2        \* requests handled in one behaviour (pin/registration API)
MaxPinIds == 2      \* CoursePin documents ever inserted
MaxRegIds == 2      \* CourseRegistration documents ever inserted
MaxCount == 2       \* largest "amount" of a generate request
MaxRandoms == 2     \* distinct outcomes of Math.random() in generate
MaxStudentIds == 2  \* Student documents ever inserted by the register handlers
MaxResults == 2     \* Result documents ever inserted
MaxRows == 2        \* rows of an uploaded spreadsheet
MaxPayments == 2    \* Payment documents ever inserted
MaxDocuments == 2   \* DocumentUpload documents ever inserted
MaxEmailLen == 4    \* longest argument given to normalizeEmail
MaxApply == 2       \* applications of normalizeEmail in a row
MaxUploads == 3     \* files ever stored in the Cloudinary folder

\* Math.floor(1000 + Math.random() * 9000): smallest suffix
RandomBase == 1000

\* --------------------------------------------------------------- strings
Empty == <<>>

Uppers == <<"A", "B", "C", "X", "Y">>
Lowers == <<"a", "b", "c", "x", "y">>
Whitespace == {" ", "\t"}

toLowerChar(ch) ==
    IF \E i \in 1..Len(Uppers) : Uppers[i] = ch
    THEN Lowers[CHOOSE i \in 1..Len(Uppers) : Uppers[i] = ch]
    ELSE ch

toUpperChar(ch) ==
    IF \E i \in 1..Len(Lowers) : Lowers[i] = ch
    THEN Uppers[CHOOSE i \in 1..Len(Lowers) : Lowers[i] = ch]
    ELSE ch

\* String.prototype.toLowerCase / toUpperCase
toLowerCase(s) == [i \in 1..Len(s) |-> toLowerChar(s[i])]
toUpperCase(s) == [i \in 1..Len(s) |-> toUpperChar(s[i])]

\* String.prototype.trim
RECURSIVE trimStart(_)
trimStart(s) ==
    IF s # Empty /\ Head(s) \in Whitespace THEN trimStart(Tail(s)) ELSE s

RECURSIVE trimEnd(_)
trimEnd(s) ==
    IF s # Empty /\ s[Len(s)] \in Whitespace
    THEN trimEnd(SubSeq(s, 1, Len(s) - 1))
    ELSE s

trim(s) == trimEnd(trimStart(s))

\* courseCode.split(" ")[0]
RECURSIVE firstToken(_)
firstToken(s) ==
    IF s = Empty \/ Head(s) = " " THEN Empty
    ELSE <<Head(s)>> \o firstToken(Tail(s))

Digits == <<"0", "1", "2", "3", "4", "5", "6", "7", "8", "9">>

\* template-literal conversion of a non-negative integer
RECURSIVE numToString(_)
numToString(n) ==
    IF n < 10 THEN <<Digits[n + 1]>>
    ELSE numToString(n \div 10) \o <<Digits[(n % 10) + 1]>>

\* ------------------------------------------------- course pins: documents
Randoms == RandomBase .. (RandomBase + MaxRandoms - 1)

\* two catalogue codes whose first token is the same after upper-casing
CourseCodes == { <<"c", " ", "1">>, <<"C", " ", "2">> }
CourseTitles == { <<"T">> }
Matrics == { <<"m", "1">>, <<"m", "2">> }
Departments == { <<"C", "S">> }
Levels == { <<"N", "D">> }

\* `REG/${prefix}/${random}`
pinCode(courseCode, random) ==
    <<"R", "E", "G", "/">> \o toUpperCase(firstToken(courseCode))
        \o <<"/">> \o numToString(random)

PinInputs == { pinCode(c, n) : c \in CourseCodes, n \in Randoms }

NoPin == [id |-> 0, pin |-> Empty, courseCode |-> Empty, used |-> FALSE]
NoReg == [id |-> 0, matricNumber |-> Empty, courseCode |-> Empty, pinUsed |-> Empty]

NoBody == [matricNumber |-> Empty, department |-> Empty, level |-> Empty,
           courseCode |-> Empty, courseTitle |-> Empty, pin |-> Empty]

AllRegisterBodies ==
    [matricNumber : Matrics \cup {Empty},
     department : Departments \cup {Empty},
     level : Levels \cup {Empty},
     courseCode : CourseCodes \cup {Empty},
     courseTitle : CourseTitles \cup {Empty},
     pin : PinInputs \cup {Empty}]

Required == {"matricNumber", "department", "level", "courseCode", "pin"}

\* request bodies: complete ones and ones that lack one required field
RegisterBodies ==
    { b \in AllRegisterBodies : Cardinality({ f \in Required : b[f] = Empty }) <= 1 }

UseBodies == { [NoBody EXCEPT !.pin = p] : p \in PinInputs \cup {Empty} }

Reqs == 1..MaxReqs

NoReq == [kind |-> "none", pc |-> "idle", body |-> NoBody, validPin |-> NoPin,
          newReg |-> NoReg, resp |-> "none", late |-> 0]

VARIABLES
    coursePins,     \* CoursePin collection
    nextPinId,      \* next _id of a CoursePin document
    courseRegs,     \* CourseRegistration collection
    nextRegId,      \* next _id of a CourseRegistration document
    req,            \* the handlers in flight: position, body and locals
    redeemed,       \* history: _ids of pins whose redemption was answered with success
    students,       \* Student collection
    nextStudentId,  \* next _id of a Student document
    sreq,           \* POST /api/students/register handlers in flight
    profiles,       \* StudentProfile collection
    nextProfileId,  \* next _id of a StudentProfile document
    preq,           \* POST /api/profile/update handler in flight
    view,           \* GET /api/students and GET /api/students/:id handler in flight
    results,        \* Result collection
    nextResultId,   \* next _id of a Result document
    ureq,           \* POST /api/upload-results handler in flight
    payments,       \* Payment collection
    nextPaymentId,  \* next _id of a Payment document
    payreq,         \* POST /api/payments handlers in flight
    documents,      \* DocumentUpload collection
    nextDocumentId, \* next _id of a DocumentUpload document
    dreq,           \* POST /upload-documents handlers in flight
    emailIn,        \* the argument of the first call of normalizeEmail
    emailOut,       \* the value of the last call of normalizeEmail
    emailApplied,   \* number of calls, each on the value of the one before
    xreq,           \* GET /api/students/export/pdf handler in flight
    uploads,        \* the files in the Cloudinary folder school_uploads
    nextUploadId    \* next public id of an uploaded file

vars == <<coursePins, nextPinId, courseRegs, nextRegId, req, redeemed,
          students, nextStudentId, sreq, profiles, nextProfileId, preq, view,
          results, nextResultId, ureq, payments, nextPaymentId, payreq,
          documents, nextDocumentId, dreq, emailIn, emailOut, emailApplied, xreq,
          uploads, nextUploadId>>

\* the variables of the pin and course-registration routes, and the others
pinVars == <<coursePins, nextPinId, courseRegs, nextRegId, req, redeemed>>
resultVars == <<results, nextResultId, ureq>>
paymentVars == <<payments, nextPaymentId, payreq>>
documentVars == <<documents, nextDocumentId, dreq>>
utilVars == <<emailIn, emailOut, emailApplied>>
exportVars == <<xreq>>
recordVars == <<resultVars, paymentVars, documentVars, utilVars, exportVars>>
notPin == <<students, nextStudentId, sreq, uploads, nextUploadId, profiles, nextProfileId, preq, view,
            recordVars>>

\* ---------------------------------------------------- storage operations

\* variant: the course code is upper-cased before the lookup
FindRegistrationUpper(regs, matricNumber, courseCode) ==
    { g \in regs : g.matricNumber = matricNumber /\ g.courseCode = toUpperCase(courseCode) }

\* CourseRegistration.findOne({ matricNumber, courseCode })
FindRegistration(regs, matricNumber, courseCode) ==
    { g \in regs : g.matricNumber = matricNumber /\ g.courseCode = courseCode }

\* variant: the query does not name the course
FindValidPinAnyCourse(pins, pin, courseCode) ==
    { p \in pins : p.pin = pin /\ ~p.used }

\* variant: the query does not ask for an unused pin
FindValidPinAnyState(pins, pin, courseCode) ==
    { p \in pins : p.pin = pin /\ p.courseCode = courseCode }

\* CoursePin.findOne({ pin, courseCode, used: false })
FindValidPin(pins, pin, courseCode) ==
    { p \in pins : p.pin = pin /\ p.courseCode = courseCode /\ ~p.used }

\* CoursePin.findOne({ pin })
FindPin(pins, pin) == { p \in pins : p.pin = pin }

\* variant: the flag is flipped instead of set
MarkUsedToggle(pins, id) ==
    { IF p.id = id THEN [p EXCEPT !.used = ~p.used] ELSE p : p \in pins }

\* doc.used = true; await doc.save()  -- updateOne({_id}, {$set: {used: true}})
MarkUsed(pins, id) ==
    { IF p.id = id THEN [p EXCEPT !.used = TRUE] ELSE p : p \in pins }

\* CoursePin.insertMany(pins): ordered insert, stops at the first document the
\* unique index on pin rejects; the documents before it stay inserted
RECURSIVE InsertMany(_, _, _)
InsertMany(pins, docs, next) ==
    IF docs = <<>> THEN [pins |-> pins, next |-> next, ok |-> TRUE]
    ELSE IF \E p \in pins : p.pin = Head(docs).pin
         THEN [pins |-> pins, next |-> next, ok |-> FALSE]
         ELSE InsertMany(pins \cup {[id |-> next, pin |-> Head(docs).pin,
                                     courseCode |-> Head(docs).courseCode,
                                     used |-> FALSE]},
                         Tail(docs), next + 1)

Finish(r, response) ==
    [req EXCEPT ![r].pc = "done", ![r].resp = response]

\* a request answered with 400 before any query: nothing of it is kept
Rejected(kind) == [NoReq EXCEPT !.kind = kind, !.pc = "done", !.resp = "400"]

\* requests arrive in the order of their index
MayStart(r) ==
    /\ req[r].pc = "idle"
    /\ IF r = 1 THEN TRUE ELSE req[r - 1].pc # "idle"

PinInit ==
    /\ coursePins = {}
    /\ nextPinId = 1
    /\ courseRegs = {}
    /\ nextRegId = 1
    /\ req = [r \in Reqs |-> NoReq]
    /\ redeemed = {}

\* ------------------------------------------- POST /api/course-pins/generate
Generate(courseCode, courseTitle, amount, randoms) ==
    /\ UNCHANGED notPin
    /\ IF courseCode = Empty \/ courseTitle = Empty
       THEN UNCHANGED <<coursePins, nextPinId, courseRegs, nextRegId, req, redeemed>>
       ELSE LET count == IF amount = 0 THEN 1 ELSE amount
                docs == [i \in 1..count |->
                           [courseCode |-> courseCode,
                            pin |-> pinCode(courseCode, randoms[i])]]
                res == InsertMany(coursePins, docs, nextPinId)
            IN /\ Len(randoms) = count
               /\ nextPinId + count - 1 <= MaxPinIds
               /\ coursePins' = res.pins
               /\ nextPinId' = res.next
               /\ UNCHANGED <<courseRegs, nextRegId, req, redeemed>>

\* ------------------------------------- DELETE /api/course-pins/delete-all
\* variant: the registrations go with the pins
DeleteAllPinsCascade ==
    /\ UNCHANGED notPin
    /\ coursePins # {}
    /\ coursePins' = {}
    /\ courseRegs' = {}
    /\ UNCHANGED <<nextPinId, nextRegId, req, redeemed>>

\* CoursePin.deleteMany({})
DeleteAllPins ==
    /\ UNCHANGED notPin
    /\ coursePins # {}
    /\ coursePins' = {}
    /\ UNCHANGED <<nextPinId, courseRegs, nextRegId, req, redeemed>>

\* ----------------------------------------- DELETE /api/course-pins/:id
DeletePin(id) ==
    /\ UNCHANGED notPin
    /\ \E p \in coursePins : p.id = id
    /\ coursePins' = { p \in coursePins : p.id # id }
    /\ UNCHANGED <<nextPinId, courseRegs, nextRegId, req, redeemed>>

\* ------------------------------------- DELETE /api/course-registrations
DeleteAllRegistrations ==
    /\ UNCHANGED notPin
    /\ courseRegs # {}
    /\ courseRegs' = {}
    /\ UNCHANGED <<coursePins, nextPinId, nextRegId, req, redeemed>>

\* --------------------------------- DELETE /api/course-registrations/:id
DeleteRegistration(id) ==
    /\ UNCHANGED notPin
    /\ \E g \in courseRegs : g.id = id
    /\ courseRegs' = { g \in courseRegs : g.id # id }
    /\ UNCHANGED <<coursePins, nextPinId, nextRegId, req, redeemed>>

\* history: the _id of the stored pin that carries the presented code and
\* whose redemption was already answered with success (0 if there is none)
LatePin(code) ==
    IF \E p \in coursePins : p.pin = code /\ p.id \in redeemed
    THEN (CHOOSE p \in coursePins : p.pin = code /\ p.id \in redeemed).id
    ELSE 0

\* A handler runs without interruption up to its first await, so the arrival
\* of a request, its field checks and its first query are one step.

\* ------------------------------------------- POST /api/course-pins/use
UseFind(r, body) ==
    /\ UNCHANGED notPin
    /\ MayStart(r)
    /\ LET started == [NoReq EXCEPT !.kind = "use", !.body = body,
                                    !.late = LatePin(body.pin)]
           found == FindPin(coursePins, body.pin)
       IN IF body.pin = Empty
          THEN req' = [req EXCEPT ![r] = Rejected(started.kind)]
          ELSE IF found = {}
          THEN req' = [req EXCEPT ![r] = [started EXCEPT !.pc = "done", !.resp = "404"]]
          ELSE LET record == CHOOSE p \in found : TRUE
               IN IF record.used
                  THEN req' = [req EXCEPT ![r] =
                                 [started EXCEPT !.pc = "done", !.resp = "already_used"]]
                  ELSE req' = [req EXCEPT ![r] =
                                 [started EXCEPT !.pc = "savePin", !.validPin = record]]
    /\ UNCHANGED <<coursePins, nextPinId, courseRegs, nextRegId, redeemed>>

\* doc.used = true; await doc.save().  Saving a document that was deleted
\* meanwhile rejects with DocumentNotFoundError, which the catch answers with 500
SavePin(r) ==
    /\ UNCHANGED notPin
    /\ req[r].pc = "savePin"
    /\ IF \E p \in coursePins : p.id = req[r].validPin.id
       THEN /\ coursePins' = MarkUsed(coursePins, req[r].validPin.id)
            /\ redeemed' = redeemed \cup {req[r].validPin.id}
            /\ req' = Finish(r, "ok")
       ELSE /\ req' = Finish(r, "500")
            /\ UNCHANGED <<coursePins, redeemed>>
    /\ UNCHANGED <<nextPinId, courseRegs, nextRegId>>

UseSave(r) == req[r].kind = "use" /\ SavePin(r)

\* ------------------------------------------- POST /api/course-register
\* variant: the pin is not among the required fields
MissingRequiredButPin(body) ==
    \/ body.matricNumber = Empty
    \/ body.department = Empty
    \/ body.level = Empty
    \/ body.courseCode = Empty

\* !matricNumber || !department || !level || !courseCode || !pin
MissingRequired(body) ==
    \/ body.matricNumber = Empty
    \/ body.department = Empty
    \/ body.level = Empty
    \/ body.courseCode = Empty
    \/ body.pin = Empty

RegisterFindAlready(r, body) ==
    /\ UNCHANGED notPin
    /\ MayStart(r)
    /\ LET started == [NoReq EXCEPT !.kind = "register", !.body = body,
                                    !.late = LatePin(body.pin)]
           already == FindRegistration(courseRegs, body.matricNumber, body.courseCode)
       IN IF MissingRequired(body)
          THEN req' = [req EXCEPT ![r] = Rejected(started.kind)]
          ELSE IF already # {}
          THEN req' = [req EXCEPT ![r] =
                         [started EXCEPT !.pc = "done", !.resp = "already_registered"]]
          ELSE req' = [req EXCEPT ![r] = [started EXCEPT !.pc = "findPin"]]
    /\ UNCHANGED <<coursePins, nextPinId, courseRegs, nextRegId, redeemed>>

RegisterFindPin(r) ==
    /\ UNCHANGED notPin
    /\ req[r].kind = "register" /\ req[r].pc = "findPin"
    /\ LET found == FindValidPin(coursePins, req[r].body.pin, req[r].body.courseCode)
       IN IF found = {} THEN req' = Finish(r, "invalid_pin")
          ELSE req' = [req EXCEPT ![r].validPin = CHOOSE p \in found : TRUE,
                                  ![r].pc = "saveReg"]
    /\ UNCHANGED <<coursePins, nextPinId, courseRegs, nextRegId, redeemed>>

\* newReg.save(): courseTitle is required by the schema but not by the handler,
\* a request without it fails validation here and is answered with 500
RegisterSaveReg(r) ==
    /\ UNCHANGED notPin
    /\ req[r].kind = "register" /\ req[r].pc = "saveReg"
    /\ IF req[r].body.courseTitle = Empty
       THEN /\ req' = Finish(r, "500")
            /\ UNCHANGED <<courseRegs, nextRegId>>
       ELSE LET newReg == [id |-> nextRegId,
                           matricNumber |-> req[r].body.matricNumber,
                           courseCode |-> req[r].body.courseCode,
                           pinUsed |-> req[r].body.pin]
            IN /\ nextRegId <= MaxRegIds
               /\ courseRegs' = courseRegs \cup {newReg}
               /\ nextRegId' = nextRegId + 1
               /\ req' = [req EXCEPT ![r].newReg = newReg, ![r].pc = "savePin"]
    /\ UNCHANGED <<coursePins, nextPinId, redeemed>>

RegisterSavePin(r) == req[r].kind = "register" /\ SavePin(r)

PinNext ==
    \/ \E c \in CourseCodes \cup {Empty}, t \in CourseTitles \cup {Empty},
          a \in 0..MaxCount :
          \E rs \in [1..(IF a = 0 THEN 1 ELSE a) -> Randoms] :
             Generate(c, t, a, rs)
    \/ DeleteAllPins
    \/ \E id \in 1..MaxPinIds : DeletePin(id)
    \/ DeleteAllRegistrations
    \/ \E id \in 1..MaxRegIds : DeleteRegistration(id)
    \/ \E r \in Reqs, b \in UseBodies : UseFind(r, b)
    \/ \E r \in Reqs : UseSave(r)
    \/ \E r \in Reqs, b \in RegisterBodies : RegisterFindAlready(r, b)
    \/ \E r \in Reqs : RegisterFindPin(r)
    \/ \E r \in Reqs : RegisterSaveReg(r)
    \/ \E r \in Reqs : RegisterSavePin(r)

\* the request bodies that carry a course title
TitledBodies == { b \in RegisterBodies : b.courseTitle # Empty }

\* pin generation and course registration alone
RegisterNext ==
    \/ \E c \in CourseCodes \cup {Empty}, t \in CourseTitles \cup {Empty},
          a \in 0..MaxCount :
          \E rs \in [1..(IF a = 0 THEN 1 ELSE a) -> Randoms] :
             Generate(c, t, a, rs)
    \/ \E r \in Reqs, b \in TitledBodies : RegisterFindAlready(r, b)
    \/ \E r \in Reqs : RegisterFindPin(r)
    \/ \E r \in Reqs : RegisterSaveReg(r)
    \/ \E r \in Reqs : RegisterSavePin(r)

\* ============================================== students and profiles

\* ------------------------------------------------------ utility functions
\* variant: the address is lower-cased but not trimmed
normalizeEmailUntrimmed(email) == toLowerCase(email)

\* variant: the address is trimmed but its case is kept
normalizeEmailKeepCase(email) == trim(email)

\* String(email || "").trim().toLowerCase()
normalizeEmail(email) == toLowerCase(trim(email))

\* String(phone || "").trim()
normalizePhone(phone) == trim(phone)

DigitSet == { Digits[i] : i \in 1..Len(Digits) }

\* /^\d{11}$/.test(phone)
isValidPhone(phone) ==
    Len(phone) = 11 /\ \A i \in 1..Len(phone) : phone[i] \in DigitSet

\* /^[^\s@]+@[^\s@]+\.[^\s@]+$/.test(email)
isValidEmail(email) ==
    \E i, j \in 1..Len(email) :
        /\ email[i] = "@" /\ email[j] = "."
        /\ 1 < i /\ i + 1 < j /\ j < Len(email)
        /\ \A k \in 1..Len(email) : k # i => email[k] \notin (Whitespace \cup {"@"})

\* ------------------------------------------------------------- documents
Phone1 == <<"0", "8", "0", "1", "2", "3", "4", "5", "6", "7", "8">>
Phone2 == <<"0", "8", "0", "1", "2", "3", "4", "5", "6", "7", "9">>

PhoneInputs ==
    { Phone1, Phone1 \o <<" ">>, Phone2,
      <<"0", "8", "0", "1", "2", "3", "4", "5", "6", "7">>, Empty }

EmailInputs ==
    { <<"a", "@", "b", ".", "c">>, <<" ", "A", "@", "B", ".", "c">>,
      <<"x", "@", "b", ".", "c">>, <<"a", "b">>, Empty }

NoStudentBody ==
    [surname |-> Empty, firstname |-> Empty, middlename |-> Empty, phone |-> Empty,
     email |-> Empty, password |-> Empty, confirmPassword |-> Empty, file |-> Empty]

AllStudentBodies ==
    [surname : {<<"S">>, Empty}, firstname : {<<"F">>, Empty}, middlename : {Empty},
     phone : PhoneInputs, email : EmailInputs,
     password : {<<"p">>, Empty}, confirmPassword : {<<"p">>, <<"q">>, Empty},
     file : {<<"u">>, Empty}]

StudentRequired ==
    {"surname", "firstname", "phone", "email", "password", "confirmPassword"}

\* the number of reasons for which the handler turns a body down
Defects(b) ==
    Cardinality({ f \in StudentRequired : b[f] = Empty })
    + (IF b.password # Empty /\ b.confirmPassword # Empty
          /\ b.password # b.confirmPassword THEN 1 ELSE 0)
    + (IF b.phone # Empty /\ ~isValidPhone(trim(b.phone)) THEN 1 ELSE 0)
    + (IF b.email # Empty /\ ~isValidEmail(trim(b.email)) THEN 1 ELSE 0)
    + (IF b.file = Empty THEN 1 ELSE 0)

\* request bodies: well-formed ones and ones with a single defect
StudentBodies == { b \in AllStudentBodies : Defects(b) <= 1 }

NoStudent ==
    [id |-> 0, surname |-> Empty, firstname |-> Empty, middlename |-> Empty,
     phone |-> Empty, email |-> Empty, password |-> Empty, passport |-> Empty]

NoSReq == [pc |-> "idle", body |-> NoStudentBody, trimmedEmail |-> Empty,
           trimmedPhone |-> Empty, passportUrl |-> Empty, resp |-> "none",
           newStudent |-> 0]

studentVars == <<students, nextStudentId, sreq, uploads, nextUploadId>>
profileVars == <<profiles, nextProfileId, preq, view>>

\* Student.findOne({ $or: [{ email }, { phone }] })
FindDuplicate(docs, email, phone) ==
    { s \in docs : s.email = email \/ s.phone = phone }

\* new Student({...}): the schema trims the strings and lower-cases the email
NewStudent(id, body, email, phone, passport) ==
    [id |-> id,
     surname |-> trim(body.surname),
     firstname |-> trim(body.firstname),
     middlename |-> IF body.middlename # Empty THEN trim(body.middlename) ELSE Empty,
     phone |-> trim(phone),
     email |-> toLowerCase(trim(email)),
     password |-> trim(body.password),
     passport |-> passport]

StudentInit ==
    /\ students = {}
    /\ nextStudentId = 1
    /\ sreq = [r \in Reqs |-> NoSReq]
    /\ uploads = {}
    /\ nextUploadId = 1

\* a missing document (null) and a missing value (undefined, null)
NoDoc == <<>>
Null == <<"null">>

NoView == [pc |-> "idle", kind |-> "none", id |-> 0, student |-> NoDoc, profile |-> NoDoc,
           students |-> <<>>, found |-> <<>>, result |-> NoDoc, resp |-> "none"]

NoProfileBody ==
    [studentId |-> 0, surname |-> Empty, firstname |-> Empty, middlename |-> Empty,
     phone |-> Empty, department |-> Empty, level |-> Empty, matricNo |-> Empty,
     regNo |-> Empty, nokPhone |-> Empty]

NoPReq == [pc |-> "idle", body |-> NoProfileBody, student |-> NoDoc, resp |-> "none"]

ProfileInit ==
    /\ profiles = {}
    /\ nextProfileId = 1
    /\ preq = NoPReq
    /\ view = NoView

\* ---------------------------------------------- POST /api/students/register
\* upload.single("passport"): the middleware stores the file of the request,
\* when it has one, in the Cloudinary folder before the handler runs
UploadSingle(file) ==
    IF file = Empty
    THEN UNCHANGED <<uploads, nextUploadId>>
    ELSE /\ nextUploadId <= MaxUploads
         /\ uploads' = uploads \cup { [id |-> nextUploadId, file |-> file] }
         /\ nextUploadId' = nextUploadId + 1

\* a finished handler's slot takes the next request
SAnswer(r, started, status) ==
    sreq' = [sreq EXCEPT ![r] = [started EXCEPT !.pc = "done", !.resp = status]]

RegisterFindDup(r, body) ==
    /\ sreq[r].pc \in {"idle", "done"}
    /\ UploadSingle(body.file)
    /\ LET trimmedEmail == normalizeEmail(body.email)
           trimmedPhone == normalizePhone(body.phone)
           started == [NoSReq EXCEPT !.body = body, !.trimmedEmail = trimmedEmail,
                                     !.trimmedPhone = trimmedPhone]
           passportUrl == body.file
       IN IF \/ \E f \in StudentRequired : body[f] = Empty
             \/ body.password # body.confirmPassword
             \/ ~isValidPhone(trimmedPhone)
             \/ ~isValidEmail(trimmedEmail)
          THEN SAnswer(r, NoSReq, "400")
          ELSE IF FindDuplicate(students, trimmedEmail, trimmedPhone) # {}
          THEN SAnswer(r, started, "409")
          ELSE IF body.file = Empty
          THEN SAnswer(r, NoSReq, "400")
          ELSE sreq' = [sreq EXCEPT ![r] =
                          [started EXCEPT !.pc = "save", !.passportUrl = passportUrl]]
    /\ UNCHANGED <<students, nextStudentId>>
    /\ UNCHANGED pinVars /\ UNCHANGED profileVars /\ UNCHANGED recordVars

RegisterSave(r) ==
    /\ sreq[r].pc = "save"
    /\ nextStudentId <= MaxStudentIds
    /\ students' = students \cup
          { NewStudent(nextStudentId, sreq[r].body, sreq[r].trimmedEmail,
                       sreq[r].trimmedPhone, sreq[r].passportUrl) }
    /\ nextStudentId' = nextStudentId + 1
    /\ sreq' = [sreq EXCEPT ![r].pc = "done", ![r].resp = "201",
                            ![r].newStudent = nextStudentId]
    /\ UNCHANGED <<uploads, nextUploadId>>
    /\ UNCHANGED pinVars /\ UNCHANGED profileVars /\ UNCHANGED recordVars

\* ------------------------------------------- DELETE /api/students/:id
DeleteStudent(id) ==
    /\ \E s \in students : s.id = id
    /\ students' = { s \in students : s.id # id }
    /\ UNCHANGED <<nextStudentId, sreq, uploads, nextUploadId>>
    /\ UNCHANGED pinVars /\ UNCHANGED profileVars /\ UNCHANGED recordVars

StudentNext ==
    \/ \E r \in Reqs, b \in StudentBodies : RegisterFindDup(r, b)
    \/ \E r \in Reqs : RegisterSave(r)
    \/ \E id \in 1..MaxStudentIds : DeleteStudent(id)

\* ------------------------------------------------ POST /api/profile/update
AllProfileBodies ==
    [studentId : 0..MaxStudentIds,
     surname : {<<"Z">>, Empty}, firstname : {Empty}, middlename : {Empty},
     phone : {Empty},
     department : {<<"C", "S">>, Empty}, level : {<<"N", "D">>, Empty},
     matricNo : {<<"M", "1">>, Empty}, regNo : {<<"R", "1">>, Empty},
     nokPhone : {<<"7">>, Empty}]

Optional == {"surname", "department", "level", "matricNo", "regNo", "nokPhone"}

\* request bodies: no optional field, the surname, the department or the
\* matric number alone, or all of them
ProfileBodies ==
    { b \in AllProfileBodies :
        { f \in Optional : b[f] # Empty } \in
            {{}, {"surname"}, {"department"}, {"matricNo"}, Optional} }

\* Math.floor(10000 + Math.random() * 90000): smallest suffix
RegRandomBase == 10000
RegRandoms == RegRandomBase .. (RegRandomBase + MaxRandoms - 1)

\* a || b
Or(a, b) == IF a # Empty /\ a # Null THEN a ELSE b

\* obj.field of a document that may lack the field
Get(doc, f) == IF f \in DOMAIN doc THEN doc[f] ELSE Null

\* s.split(" ").map(w => w[0]).join("")
Initials(s) ==
    LET Firsts == { i \in 1..Len(s) : s[i] # " " /\ (i = 1 \/ s[i - 1] = " ") }
        F[i \in 0..Len(s)] ==
            IF i = 0 THEN <<>>
            ELSE IF i \in Firsts THEN F[i - 1] \o <<s[i]>> ELSE F[i - 1]
    IN F[Len(s)]

\* `Reg/${prefix}/${random}`
generatedRegNo(department, random) ==
    LET prefix == toUpperCase(SubSeq(Initials(Or(department, <<"S", "T", "D">>)), 1,
                     IF Len(Initials(Or(department, <<"S", "T", "D">>))) < 3
                     THEN Len(Initials(Or(department, <<"S", "T", "D">>))) ELSE 3))
    IN <<"R", "e", "g", "/">> \o prefix \o <<"/">> \o numToString(random)

\* the fields of $set; a field whose value is undefined is left out of the update
ProfileSet(body, student, regNo) ==
    LET matricNo == Or(body.matricNo, Get(student, "matricNo"))
        fields == [surname |-> Or(body.surname, student.surname),
                   firstname |-> Or(body.firstname, student.firstname),
                   middlename |-> Or(body.middlename, student.middlename),
                   phone |-> Or(body.phone, student.phone),
                   email |-> student.email,
                   department |-> Or(body.department, Empty),
                   regNo |-> regNo,
                   level |-> Or(body.level, Empty),
                   nokPhone |-> Or(body.nokPhone, Empty),
                   passport |-> student.passport]
    IN IF matricNo = Null THEN fields
       ELSE [k \in DOMAIN fields \cup {"matricNo"} |->
               IF k = "matricNo" THEN matricNo ELSE fields[k]]

\* {...a, ...b}
Spread(a, b) ==
    [k \in (DOMAIN a) \cup (DOMAIN b) |-> IF k \in DOMAIN b THEN b[k] ELSE a[k]]

\* the unique indexes on regNo and matricNo: a missing field is indexed as null
IndexConflict(docs, doc) ==
    \E p \in docs :
        /\ p.id # doc.id
        /\ \/ Get(p, "regNo") = Get(doc, "regNo")
           \/ Get(p, "matricNo") = Get(doc, "matricNo")

\* findOne / findById: the first document in insertion order, or null
First(docs) ==
    IF docs = {} THEN NoDoc ELSE CHOOSE d \in docs : \A e \in docs : d.id <= e.id

ProfileFindStudent(body) ==
    /\ preq.pc \in {"idle", "done"}
    /\ LET student == First({ s \in students : s.id = body.studentId })
       IN IF body.studentId = 0
          THEN preq' = [NoPReq EXCEPT !.pc = "done", !.resp = "400"]
          ELSE IF student = NoDoc
          THEN preq' = [NoPReq EXCEPT !.pc = "done", !.resp = "404"]
          ELSE preq' = [NoPReq EXCEPT !.pc = "update", !.body = body, !.student = student]
    /\ UNCHANGED <<profiles, nextProfileId, view>>
    /\ UNCHANGED pinVars /\ UNCHANGED studentVars /\ UNCHANGED recordVars

\* StudentProfile.findOneAndUpdate({ email }, { $set }, { new: true, upsert: true })
ProfileUpsert(random) ==
    /\ preq.pc = "update"
    /\ LET regNo == IF preq.body.regNo = Empty
                    THEN generatedRegNo(preq.body.department, random)
                    ELSE preq.body.regNo
           set == ProfileSet(preq.body, preq.student, regNo)
           old == First({ p \in profiles : p.email = preq.student.email })
           doc == IF old = NoDoc THEN Spread([id |-> nextProfileId], set)
                  ELSE Spread(old, set)
       IN IF IndexConflict(profiles, doc)
          THEN /\ preq' = [NoPReq EXCEPT !.pc = "done", !.resp = "500"]
               /\ UNCHANGED <<profiles, nextProfileId>>
          ELSE /\ profiles' = { p \in profiles : p.id # doc.id } \cup {doc}
               /\ nextProfileId' = IF old = NoDoc THEN nextProfileId + 1 ELSE nextProfileId
               /\ preq' = [NoPReq EXCEPT !.pc = "done", !.resp = "200"]
    /\ UNCHANGED view
    /\ UNCHANGED pinVars /\ UNCHANGED studentVars /\ UNCHANGED recordVars

\* ------------------------------------------------ GET /api/students/:id
\* variant: the profile is spread last
mergeStudentProfileLast(profile, student) == Spread(student, profile)

\* { ...profile?.toObject(), ...student.toObject() }
mergeStudent(profile, student) == Spread(profile, student)

GetFindStudent(id) ==
    /\ view.pc \in {"idle", "done"}
    /\ LET student == First({ s \in students : s.id = id })
       IN IF student = NoDoc
          THEN view' = [NoView EXCEPT !.pc = "done", !.kind = "get", !.id = id,
                                      !.resp = "404"]
          ELSE view' = [NoView EXCEPT !.pc = "profile", !.kind = "get", !.id = id,
                                      !.student = student]
    /\ UNCHANGED <<profiles, nextProfileId, preq>>
    /\ UNCHANGED pinVars /\ UNCHANGED studentVars /\ UNCHANGED recordVars

GetFindProfile ==
    /\ view.pc = "profile"
    /\ LET profile == First({ p \in profiles : p.email = view.student.email })
       IN view' = [view EXCEPT !.pc = "done", !.profile = profile, !.resp = "200",
                               !.result = mergeStudent(profile, view.student)]
    /\ UNCHANGED <<profiles, nextProfileId, preq>>
    /\ UNCHANGED pinVars /\ UNCHANGED studentVars /\ UNCHANGED recordVars

\* ---------------------------------------------------- GET /api/students
NA == <<"N", "/", "A">>

\* [a, b, c].filter(Boolean).join(" ")
RECURSIVE joinNames(_)
joinNames(parts) ==
    IF parts = <<>> THEN Empty
    ELSE LET rest == joinNames(Tail(parts))
         IN IF Head(parts) = Empty \/ Head(parts) = Null THEN rest
            ELSE IF rest = Empty THEN Head(parts)
            ELSE Head(parts) \o <<" ">> \o rest

\* the element of mergedStudents built from the student s and its profile
listElement(profile, s) ==
    Spread(Spread(profile, s),
           [fullname |-> joinNames(<<s.surname, s.firstname, s.middlename>>),
            matricNo |-> Or(Get(s, "matricNo"), Or(Get(profile, "matricNo"), NA)),
            department |-> Or(Get(s, "department"), Or(Get(profile, "department"), NA)),
            level |-> Or(Get(s, "level"), Or(Get(profile, "level"), NA)),
            passport |-> Or(Get(s, "passport"), Or(Get(profile, "passport"), Null))])

\* Student.find({}): the documents in insertion order
RECURSIVE inOrder(_)
inOrder(docs) ==
    IF docs = {} THEN <<>>
    ELSE <<First(docs)>> \o inOrder(docs \ {First(docs)})

ListFindStudents ==
    /\ view.pc \in {"idle", "done"}
    /\ view' = [NoView EXCEPT !.pc = "merge", !.kind = "list", !.students = inOrder(students)]
    /\ UNCHANGED <<profiles, nextProfileId, preq>>
    /\ UNCHANGED pinVars /\ UNCHANGED studentVars /\ UNCHANGED recordVars

\* the profile lookups of Promise.all and the response (no q, department or
\* level filter, first page)
ListMerge ==
    /\ view.pc = "merge"
    /\ LET found == [i \in 1..Len(view.students) |->
                       First({ p \in profiles : p.email = view.students[i].email })]
       IN view' = [view EXCEPT !.pc = "done", !.found = found, !.resp = "200",
                     !.result = [i \in 1..Len(view.students) |->
                                   listElement(found[i], view.students[i])]]
    /\ UNCHANGED <<profiles, nextProfileId, preq>>
    /\ UNCHANGED pinVars /\ UNCHANGED studentVars /\ UNCHANGED recordVars

\* two students registered one after the other
RegisteredBody1 ==
    [surname |-> <<"S">>, firstname |-> <<"F">>, middlename |-> Empty,
     phone |-> Phone1, email |-> <<" ", "A", "@", "B", ".", "c">>,
     password |-> <<"p">>, confirmPassword |-> <<"p">>, file |-> <<"u">>]

RegisteredBody2 ==
    [RegisteredBody1 EXCEPT !.phone = Phone2, !.email = <<"x", "@", "b", ".", "c">>]

Registered(id, body) ==
    NewStudent(id, body, normalizeEmail(body.email), normalizePhone(body.phone), body.file)

RegisteredStudents == { Registered(1, RegisteredBody1), Registered(2, RegisteredBody2) }

MergeInit ==
    /\ students = RegisteredStudents
    /\ nextStudentId = 3
    /\ sreq = [r \in Reqs |-> NoSReq]
    /\ uploads = { [id |-> 1, file |-> RegisteredBody1.file],
                   [id |-> 2, file |-> RegisteredBody2.file] }
    /\ nextUploadId = 3

MergeNext ==
    \/ \E b \in ProfileBodies : ProfileFindStudent(b)
    \/ \E n \in RegRandoms : ProfileUpsert(n)
    \/ \E id \in 1..MaxStudentIds : DeleteStudent(id)
    \/ \E id \in 1..MaxStudentIds : GetFindStudent(id)
    \/ GetFindProfile
    \/ ListFindStudents
    \/ ListMerge

\* ------------------------------------------------ POST /api/upload-results
\* the course catalogue the uploads are resolved against: one nested course
Catalogue == { [code |-> <<"C", " ", "2">>, title |-> <<"T">>] }

\* scores at and next to every threshold of the grade table
Scores == {0, 39, 40, 44, 45, 49, 50, 59, 60, 69, 70, 100}

\* a score as it arrives: a JSON or cell number, a string, or nothing
NoScore == [kind |-> "missing", num |-> 0, str |-> Empty]
ScoreInputs ==
    { [kind |-> "number", num |-> n, str |-> Empty] : n \in Scores }
    \cup { [kind |-> "string", num |-> 0, str |-> numToString(n)] : n \in {0, 69} }
    \cup { NoScore }

\* !score
Falsy(score) ==
    \/ score.kind = "missing"
    \/ score.kind = "number" /\ score.num = 0
    \/ score.kind = "string" /\ score.str = Empty

DigitValue(ch) == CHOOSE d \in 0..9 : Digits[d + 1] = ch

\* Number(s) of a string of decimal digits
RECURSIVE stringToNum(_)
stringToNum(s) ==
    IF s = Empty THEN 0
    ELSE stringToNum(SubSeq(s, 1, Len(s) - 1)) * 10 + DigitValue(s[Len(s)])

\* Number(score)
Number(score) == IF score.kind = "string" THEN stringToNum(score.str) ELSE score.num

\* Number(row["Score"] || row["score"] || 0)
bulkScore(score) == IF Falsy(score) THEN 0 ELSE Number(score)

\* the threshold table of the spreadsheet path
bulkGrade(score) ==
    IF score >= 70 THEN <<"A">>
    ELSE IF score >= 60 THEN <<"B">>
    ELSE IF score >= 50 THEN <<"C">>
    ELSE IF score >= 45 THEN <<"D">>
    ELSE IF score >= 40 THEN <<"E">>
    ELSE <<"F">>

\* the threshold table of the single-record path
singleGrade(numericScore) ==
    IF numericScore >= 70 THEN <<"A">>
    ELSE IF numericScore >= 60 THEN <<"B">>
    ELSE IF numericScore >= 50 THEN <<"C">>
    ELSE IF numericScore >= 45 THEN <<"D">>
    ELSE IF numericScore >= 40 THEN <<"E">>
    ELSE <<"F">>

\* the regular expression `^${pattern}$` with option "i", applied to s: a "."
\* of the pattern stands for any one character, every other character of
\* the alphabet for itself in either case
regexMatch(pattern, s) ==
    /\ Len(pattern) = Len(s)
    /\ \A i \in 1..Len(s) :
          \/ pattern[i] = "."
          \/ toLowerChar(pattern[i]) = toLowerChar(s[i])

\* CourseCollection.findOne({ "courses.code": { $regex: `^${courseCode}$`, $options: "i" } })
FindCourse(courseCode) ==
    { c \in Catalogue : regexMatch(courseCode, c.code) }

\* courseDoc.courses.find((c) => c.code.toLowerCase() === courseCode.toLowerCase())
matchedCourse(courseCode) ==
    { c \in Catalogue : toLowerCase(c.code) = toLowerCase(courseCode) }

\* matchedCourse ? matchedCourse.title : ""
matchedTitle(courseCode) ==
    IF matchedCourse(courseCode) = {} THEN Empty
    ELSE (CHOOSE c \in matchedCourse(courseCode) : TRUE).title

NoResultBody ==
    [fullname |-> Empty, matricNo |-> Empty, courseCode |-> Empty,
     score |-> NoScore, grade |-> Empty]

AllResultBodies ==
    [fullname : {<<"N">>, Empty}, matricNo : {<<"m", "1">>, Empty},
     courseCode : {<<"c", " ", "2">>, <<"Z">>, Empty},
     score : ScoreInputs, grade : {<<"A">>, Empty}]

\* the fields of a body that are absent or name no course
ResultDefects(b) ==
    Cardinality({ f \in {"fullname", "matricNo", "courseCode"} : b[f] = Empty })
    + (IF b.score = NoScore THEN 1 ELSE 0)
    + (IF b.courseCode # Empty /\ FindCourse(b.courseCode) = {} THEN 1 ELSE 0)

\* a complete body whose course code holds a character the regular
\* expression of the lookup gives a meaning to
WildcardBody ==
    [fullname |-> <<"N">>, matricNo |-> <<"m", "1">>, courseCode |-> <<"c", ".", "2">>,
     score |-> [kind |-> "number", num |-> 50, str |-> Empty], grade |-> Empty]

\* request bodies: complete ones and ones with one defect
ResultBodies == { b \in AllResultBodies : ResultDefects(b) <= 1 } \cup { WildcardBody }

\* spreadsheet rows: the name and matric number cells are filled in
ResultRows == { b \in ResultBodies : b.fullname # Empty /\ b.matricNo # Empty }

NoUReq == [pc |-> "idle", kind |-> "none", body |-> NoResultBody, remaining |-> 0,
           formattedResults |-> <<>>, resp |-> "none"]

ResultInit ==
    /\ results = {}
    /\ nextResultId = 1
    /\ ureq = NoUReq

\* the fields of a Result document that the handler computes
NewResult(row, score, grade) ==
    [fullname |-> row.fullname, matricNo |-> row.matricNo,
     courseCode |-> row.courseCode, courseTitle |-> matchedTitle(row.courseCode),
     score |-> score, grade |-> grade]

\* insertion of documents in order, each with the next _id
RECURSIVE InsertResults(_, _, _)
InsertResults(docs, new, next) ==
    IF new = <<>> THEN docs
    ELSE InsertResults(docs \cup { [d \in {"id"} \cup DOMAIN Head(new) |->
                                      IF d = "id" THEN next ELSE Head(new)[d]] },
                       Tail(new), next + 1)

\* CASE 1: a spreadsheet of n rows arrives
UploadBulkStart(n) ==
    /\ ureq.pc \in {"idle", "done"}
    /\ IF n = 0
       THEN ureq' = [NoUReq EXCEPT !.pc = "done", !.kind = "bulk", !.resp = "400"]
       ELSE ureq' = [NoUReq EXCEPT !.pc = "row", !.kind = "bulk", !.remaining = n]
    /\ UNCHANGED <<results, nextResultId>>
    /\ UNCHANGED pinVars /\ UNCHANGED studentVars /\ UNCHANGED profileVars /\ UNCHANGED utilVars /\ UNCHANGED exportVars
    /\ UNCHANGED paymentVars /\ UNCHANGED documentVars

\* one turn of the loop over the rows, up to its course lookup
UploadBulkRow(row) ==
    /\ ureq.pc = "row"
    /\ nextResultId + Len(ureq.formattedResults) <= MaxResults
    /\ LET score == bulkScore(row.score)
           grade == IF row.grade = Empty THEN bulkGrade(score) ELSE row.grade
           courseCode == trim(row.courseCode)
           formatted == NewResult([row EXCEPT !.courseCode = courseCode], score, grade)
       IN IF FindCourse(courseCode) = {}
          THEN ureq' = [NoUReq EXCEPT !.pc = "done", !.kind = "bulk", !.resp = "400"]
          ELSE ureq' = [ureq EXCEPT
                          !.pc = IF ureq.remaining = 1 THEN "insert" ELSE "row",
                          !.body = row,
                          !.remaining = ureq.remaining - 1,
                          !.formattedResults = Append(ureq.formattedResults, formatted)]
    /\ UNCHANGED <<results, nextResultId>>
    /\ UNCHANGED pinVars /\ UNCHANGED studentVars /\ UNCHANGED profileVars /\ UNCHANGED utilVars /\ UNCHANGED exportVars
    /\ UNCHANGED paymentVars /\ UNCHANGED documentVars

\* Result.insertMany(formattedResults)
UploadBulkInsert ==
    /\ ureq.pc = "insert"
    /\ results' = InsertResults(results, ureq.formattedResults, nextResultId)
    /\ nextResultId' = nextResultId + Len(ureq.formattedResults)
    /\ ureq' = [NoUReq EXCEPT !.pc = "done", !.kind = ureq.kind, !.resp = "200"]
    /\ UNCHANGED pinVars /\ UNCHANGED studentVars /\ UNCHANGED profileVars /\ UNCHANGED utilVars /\ UNCHANGED exportVars
    /\ UNCHANGED paymentVars /\ UNCHANGED documentVars

\* CASE 2: a single record arrives, up to its course lookup
UploadSingleFind(body) ==
    /\ ureq.pc \in {"idle", "done"}
    /\ LET started == [NoUReq EXCEPT !.kind = "single", !.body = body]
       IN IF \/ body.fullname = Empty \/ body.matricNo = Empty
             \/ body.courseCode = Empty \/ Falsy(body.score)
          THEN ureq' = [started EXCEPT !.pc = "done", !.resp = "400"]
          ELSE IF FindCourse(body.courseCode) = {}
          THEN ureq' = [started EXCEPT !.pc = "done", !.resp = "400"]
          ELSE LET numericScore == Number(body.score)
                   finalGrade == IF body.grade = Empty \/ trim(body.grade) = Empty
                                 THEN singleGrade(numericScore) ELSE body.grade
               IN ureq' = [started EXCEPT !.pc = "save",
                             !.formattedResults =
                                 <<NewResult(body, numericScore, finalGrade)>>]
    /\ UNCHANGED <<results, nextResultId>>
    /\ UNCHANGED pinVars /\ UNCHANGED studentVars /\ UNCHANGED profileVars /\ UNCHANGED utilVars /\ UNCHANGED exportVars
    /\ UNCHANGED paymentVars /\ UNCHANGED documentVars

\* newResult.save()
UploadSingleSave ==
    /\ ureq.pc = "save"
    /\ nextResultId <= MaxResults
    /\ results' = InsertResults(results, ureq.formattedResults, nextResultId)
    /\ nextResultId' = nextResultId + 1
    /\ ureq' = [NoUReq EXCEPT !.pc = "done", !.kind = ureq.kind, !.resp = "200"]
    /\ UNCHANGED pinVars /\ UNCHANGED studentVars /\ UNCHANGED profileVars /\ UNCHANGED utilVars /\ UNCHANGED exportVars
    /\ UNCHANGED paymentVars /\ UNCHANGED documentVars

ResultNext ==
    \/ \E n \in 0..MaxRows : UploadBulkStart(n)
    \/ \E row \in ResultRows : UploadBulkRow(row)
    \/ UploadBulkInsert
    \/ \E b \in ResultBodies : UploadSingleFind(b)
    \/ UploadSingleSave

\* ------------------------------------------------------ POST /api/payments
PaymentIds == { <<"P", "1">>, <<"P", "2">> }

NoPaymentBody ==
    [matricNumber |-> Empty, studentName |-> Empty, department |-> Empty,
     level |-> Empty, receiptNo |-> Empty, amount |-> 0, paymentType |-> Empty,
     semester |-> Empty, systemPaymentId |-> Empty]

\* amount 0 stands for a missing amount as well: both fail !amount
AllPaymentBodies ==
    [matricNumber : {<<"m", "1">>, Empty}, studentName : {<<"N">>}, department : {<<"C", "S">>},
     level : {<<"N", "D">>, Empty}, receiptNo : {<<"r">>}, amount : {0, 5},
     paymentType : {<<"F", "u", "l", "l", " ", "P", "a", "y", "m", "e", "n", "t">>,
                    <<"C", "a", "s", "h">>, Empty},
     semester : {<<"F", "i", "r", "s", "t", " ", "S", "e", "m", "e", "s", "t", "e", "r">>,
                 Empty},
     systemPaymentId : PaymentIds \cup {Empty}]

PaymentTypes ==
    { <<"P", "a", "r", "t", " ", "P", "a", "y", "m", "e", "n", "t">>,
      <<"B", "a", "l", "a", "n", "c", "e", " ", "P", "a", "y", "m", "e", "n", "t">>,
      <<"F", "u", "l", "l", " ", "P", "a", "y", "m", "e", "n", "t">> }

Semesters ==
    { <<"F", "i", "r", "s", "t", " ", "S", "e", "m", "e", "s", "t", "e", "r">>,
      <<"S", "e", "c", "o", "n", "d", " ", "S", "e", "m", "e", "s", "t", "e", "r">> }

\* the validation of PaymentSchema: required fields and enums
ValidPayment(b) ==
    /\ b.matricNumber # Empty /\ b.studentName # Empty /\ b.department # Empty
    /\ b.level # Empty /\ b.receiptNo # Empty
    /\ b.paymentType \in PaymentTypes /\ b.semester \in Semesters
    /\ b.systemPaymentId # Empty

\* the checks of the handler
PaymentFieldsMissing(b) ==
    \/ b.matricNumber = Empty \/ b.studentName = Empty \/ b.department = Empty
    \/ b.receiptNo = Empty \/ b.amount = 0 \/ b.paymentType = Empty
    \/ b.systemPaymentId = Empty

\* request bodies: valid ones and ones with one defect
PaymentBodies ==
    { b \in AllPaymentBodies :
        Cardinality({ f \in {"matricNumber", "level", "semester", "systemPaymentId"} :
                        b[f] = Empty })
        + (IF b.amount = 0 THEN 1 ELSE 0)
        + (IF b.paymentType \notin PaymentTypes THEN 1 ELSE 0) <= 1 }

NoPayReq == [pc |-> "idle", body |-> NoPaymentBody, resp |-> "none"]

PaymentInit ==
    /\ payments = {}
    /\ nextPaymentId = 1
    /\ payreq = [r \in Reqs |-> NoPayReq]

\* Payment.findOne({ systemPaymentId })
FindPayment(docs, systemPaymentId) ==
    { p \in docs : p.systemPaymentId = systemPaymentId }

\* variant: the collection has no unique index
PaymentIdFreeAlways(docs, systemPaymentId) == TRUE

\* systemPaymentId: { unique: true }
PaymentIdFree(docs, systemPaymentId) ==
    \A p \in docs : p.systemPaymentId # systemPaymentId

NewPayment(id, b) ==
    [id |-> id, matricNumber |-> b.matricNumber, studentName |-> b.studentName,
     department |-> b.department, level |-> b.level, receiptNo |-> b.receiptNo,
     amount |-> b.amount, paymentType |-> b.paymentType, semester |-> b.semester,
     systemPaymentId |-> b.systemPaymentId]

PaymentFind(r, body) ==
    /\ payreq[r].pc \in {"idle", "done"}
    /\ IF PaymentFieldsMissing(body)
       THEN payreq' = [payreq EXCEPT ![r] = [NoPayReq EXCEPT !.pc = "done", !.resp = "400"]]
       ELSE IF FindPayment(payments, body.systemPaymentId) # {}
       THEN payreq' = [payreq EXCEPT ![r] =
                         [NoPayReq EXCEPT !.pc = "done", !.body = body, !.resp = "400"]]
       ELSE payreq' = [payreq EXCEPT ![r] = [NoPayReq EXCEPT !.pc = "save", !.body = body]]
    /\ UNCHANGED <<payments, nextPaymentId>>
    /\ UNCHANGED pinVars /\ UNCHANGED studentVars /\ UNCHANGED profileVars /\ UNCHANGED utilVars /\ UNCHANGED exportVars
    /\ UNCHANGED resultVars /\ UNCHANGED documentVars

\* payment.save()
PaymentSave(r) ==
    /\ payreq[r].pc = "save"
    /\ IF ValidPayment(payreq[r].body)
          /\ PaymentIdFree(payments, payreq[r].body.systemPaymentId)
       THEN /\ nextPaymentId <= MaxPayments
            /\ payments' = payments \cup { NewPayment(nextPaymentId, payreq[r].body) }
            /\ nextPaymentId' = nextPaymentId + 1
            /\ payreq' = [payreq EXCEPT ![r].pc = "done", ![r].resp = "200"]
       ELSE /\ payreq' = [payreq EXCEPT ![r].pc = "done", ![r].resp = "500"]
            /\ UNCHANGED <<payments, nextPaymentId>>
    /\ UNCHANGED pinVars /\ UNCHANGED studentVars /\ UNCHANGED profileVars /\ UNCHANGED utilVars /\ UNCHANGED exportVars
    /\ UNCHANGED resultVars /\ UNCHANGED documentVars

PaymentNext ==
    \/ \E r \in Reqs, b \in PaymentBodies : PaymentFind(r, b)
    \/ \E r \in Reqs : PaymentSave(r)

\* --------------------------------------------------- POST /upload-documents
\* of the expected file fields the model follows one, "nin"
NoDocumentBody ==
    [studentId |-> 0, matricNumber |-> Empty, olevelData |-> <<>>,
     jambRegNo |-> Empty, jambScore |-> Empty, nin |-> Empty]

\* olevelData stands for the parsed list, nin for the file sent in that field
AllDocumentBodies ==
    [studentId : 0..MaxStudentIds, matricNumber : {<<"m", "1">>, Empty},
     olevelData : {<<"W">>, <<>>}, jambRegNo : {<<"J">>, Empty},
     jambScore : {<<"2">>, Empty}, nin : {<<"f">>, Empty}]

DocumentOptional == {"matricNumber", "olevelData", "jambRegNo", "jambScore", "nin"}

\* request bodies: nothing but the id, the matric number, the file or the JAMB
\* registration number alone, or everything
DocumentBodies ==
    { b \in AllDocumentBodies :
        { f \in DocumentOptional : b[f] # Empty } \in
            {{}, {"matricNumber"}, {"nin"}, {"jambRegNo"}, DocumentOptional} }

\* cloudinary.uploader.upload(...).secure_url of a file
uploadedUrl(file) == IF file = Empty THEN Empty ELSE <<"u", "/">> \o file

NoDReq == [pc |-> "idle", body |-> NoDocumentBody, existingDoc |-> 0, resp |-> "none"]

DocumentInit ==
    /\ documents = {}
    /\ nextDocumentId = 1
    /\ dreq = [r \in Reqs |-> NoDReq]

\* Document.findOne({ studentId })
FindDocument(docs, studentId) == First({ d \in docs : d.studentId = studentId })

\* new Document({...})
NewDocument(id, b) ==
    [id |-> id, studentId |-> b.studentId, matricNumber |-> trim(b.matricNumber),
     oLevelData |-> b.olevelData, jambRegNo |-> b.jambRegNo,
     jambScore |-> b.jambScore, nin |-> uploadedUrl(b.nin)]

\* variant: the JAMB info is taken from the request as it is
UpdatedDocumentJambAsSent(d, b) ==
    [d EXCEPT
       !.oLevelData = IF Len(b.olevelData) > 0 THEN b.olevelData ELSE @,
       !.jambRegNo = IF b.jambRegNo # Empty \/ b.jambScore # Empty
                     THEN b.jambRegNo ELSE @,
       !.jambScore = IF b.jambRegNo # Empty \/ b.jambScore # Empty
                     THEN b.jambScore ELSE @,
       !.matricNumber = IF b.matricNumber # Empty THEN trim(b.matricNumber) ELSE @,
       !.nin = IF uploadedUrl(b.nin) # Empty THEN uploadedUrl(b.nin) ELSE @]

\* the assignments to existingDoc; save() writes the paths that changed
UpdatedDocument(d, b) ==
    [d EXCEPT
       !.oLevelData = IF Len(b.olevelData) > 0 THEN b.olevelData ELSE @,
       !.jambRegNo = IF b.jambRegNo # Empty \/ b.jambScore # Empty
                     THEN Or(b.jambRegNo, @) ELSE @,
       !.jambScore = IF b.jambRegNo # Empty \/ b.jambScore # Empty
                     THEN Or(b.jambScore, @) ELSE @,
       !.matricNumber = IF b.matricNumber # Empty THEN trim(b.matricNumber) ELSE @,
       !.nin = IF uploadedUrl(b.nin) # Empty THEN uploadedUrl(b.nin) ELSE @]

\* the request up to Document.findOne, the file uploads included
DocumentFind(r, body) ==
    /\ dreq[r].pc \in {"idle", "done"}
    /\ IF body.studentId = 0
       THEN dreq' = [dreq EXCEPT ![r] = [NoDReq EXCEPT !.pc = "done", !.resp = "400"]]
       ELSE LET existingDoc == FindDocument(documents, body.studentId)
            IN dreq' = [dreq EXCEPT ![r] =
                         [NoDReq EXCEPT !.pc = "save", !.body = body,
                            !.existingDoc = IF existingDoc = NoDoc THEN 0
                                            ELSE existingDoc.id]]
    /\ UNCHANGED <<documents, nextDocumentId>>
    /\ UNCHANGED pinVars /\ UNCHANGED studentVars /\ UNCHANGED profileVars /\ UNCHANGED utilVars /\ UNCHANGED exportVars
    /\ UNCHANGED resultVars /\ UNCHANGED paymentVars

\* existingDoc.save() or newDoc.save()
DocumentSave(r) ==
    /\ dreq[r].pc = "save"
    /\ IF dreq[r].existingDoc # 0
       THEN /\ documents' =
                 { IF d.id = dreq[r].existingDoc THEN UpdatedDocument(d, dreq[r].body)
                   ELSE d : d \in documents }
            /\ UNCHANGED nextDocumentId
       ELSE /\ nextDocumentId <= MaxDocuments
            /\ documents' = documents \cup { NewDocument(nextDocumentId, dreq[r].body) }
            /\ nextDocumentId' = nextDocumentId + 1
    /\ dreq' = [dreq EXCEPT ![r] = [NoDReq EXCEPT !.pc = "done", !.resp = "200"]]
    /\ UNCHANGED pinVars /\ UNCHANGED studentVars /\ UNCHANGED profileVars /\ UNCHANGED utilVars /\ UNCHANGED exportVars
    /\ UNCHANGED resultVars /\ UNCHANGED paymentVars

DocumentNext ==
    \/ \E r \in Reqs, b \in DocumentBodies : DocumentFind(r, b)
    \/ \E r \in Reqs : DocumentSave(r)

\* --------------------------------------------- normalizeEmail on its own
EmailChars == {"A", "b", " ", "@"}

\* every string of at most n characters
RECURSIVE StringsUpTo(_)
StringsUpTo(n) ==
    IF n = 0 THEN {Empty}
    ELSE StringsUpTo(n - 1)
         \cup { Append(e, ch) : e \in { x \in StringsUpTo(n - 1) : Len(x) = n - 1 },
                                ch \in EmailChars }

\* no call yet, on the empty argument
UtilInit ==
    /\ emailIn = Empty
    /\ emailOut = Empty
    /\ emailApplied = 0

\* no call yet, on any argument
NormalizeInit ==
    /\ emailIn \in StringsUpTo(MaxEmailLen)
    /\ emailOut = emailIn
    /\ emailApplied = 0

\* emailOut = normalizeEmail(emailOut)
Normalize ==
    /\ emailApplied < MaxApply
    /\ emailOut' = normalizeEmail(emailOut)
    /\ emailApplied' = emailApplied + 1
    /\ UNCHANGED emailIn
    /\ UNCHANGED pinVars /\ UNCHANGED studentVars /\ UNCHANGED profileVars /\ UNCHANGED exportVars
    /\ UNCHANGED resultVars /\ UNCHANGED paymentVars /\ UNCHANGED documentVars

\* -------------------------------------- GET /api/students/export/pdf
\* what the download of one passport image can end in: an image, bytes that
\* are no image, an error answer, no answer within the timeout
FetchOutcomes == {"image", "broken", "failed", "timeout"}

\* variant: the download error is not caught
fetchImageBufferThrows(url, outcome) ==
    IF url = Empty THEN "null"
    ELSE IF outcome \in {"failed", "timeout"} THEN "throw"
    ELSE "buffer"

\* fetchImageBuffer(url): the buffer, or null when there is no url or the
\* download fails
fetchImageBuffer(url, outcome) ==
    IF url = Empty THEN "null"
    ELSE IF outcome \in {"failed", "timeout"} THEN "null"
    ELSE "buffer"

\* Student.find({}).sort({ dateRegistered: -1 }): the latest registration first
RECURSIVE newestFirst(_)
newestFirst(docs) ==
    IF docs = {} THEN <<>>
    ELSE LET last == CHOOSE s \in docs : \A t \in docs : t.id <= s.id
         IN <<last>> \o newestFirst(docs \ {last})

NoXReq == [pc |-> "idle", found |-> <<>>, students |-> <<>>, rows |-> <<>>, resp |-> "none"]

ExportInit == xreq = NoXReq

\* the query, the headers and the table header
ExportFind ==
    /\ xreq.pc \in {"idle", "done"}
    /\ xreq' = [NoXReq EXCEPT !.pc = "row", !.found = newestFirst(students),
                              !.students = newestFirst(students)]
    /\ UNCHANGED pinVars /\ UNCHANGED studentVars /\ UNCHANGED profileVars
    /\ UNCHANGED resultVars /\ UNCHANGED paymentVars /\ UNCHANGED documentVars
    /\ UNCHANGED utilVars

\* one turn of the loop over the students: the download, the thumbnail or
\* the placeholder, the name and the contact cells
ExportRow(outcome) ==
    /\ xreq.pc = "row"
    /\ xreq.students # <<>>
    /\ LET s == Head(xreq.students)
           imgBuf == fetchImageBuffer(s.passport, outcome)
           photo == IF imgBuf = "null" THEN "placeholder"
                    ELSE IF outcome = "broken" THEN "none" ELSE "image"
       IN IF imgBuf = "throw"
          THEN xreq' = [xreq EXCEPT !.pc = "done", !.resp = "500"]
          ELSE xreq' = [xreq EXCEPT
                          !.students = Tail(xreq.students),
                          !.rows = Append(xreq.rows, [student |-> s.id,
                                                      fetch |-> outcome,
                                                      photo |-> photo])]
    /\ UNCHANGED pinVars /\ UNCHANGED studentVars /\ UNCHANGED profileVars
    /\ UNCHANGED resultVars /\ UNCHANGED paymentVars /\ UNCHANGED documentVars
    /\ UNCHANGED utilVars

\* doc.end(); doc.pipe(res)
ExportEnd ==
    /\ xreq.pc = "row"
    /\ xreq.students = <<>>
    /\ xreq' = [xreq EXCEPT !.pc = "done", !.resp = "200"]
    /\ UNCHANGED pinVars /\ UNCHANGED studentVars /\ UNCHANGED profileVars
    /\ UNCHANGED resultVars /\ UNCHANGED paymentVars /\ UNCHANGED documentVars
    /\ UNCHANGED utilVars

ExportNext ==
    \/ ExportFind
    \/ \E outcome \in FetchOutcomes : ExportRow(outcome)
    \/ ExportEnd
    \/ \E id \in 1..MaxStudentIds : DeleteStudent(id)

RecordInit == ResultInit /\ PaymentInit /\ DocumentInit /\ UtilInit /\ ExportInit

MergeStart == PinInit /\ MergeInit /\ ProfileInit /\ RecordInit

MergeSpec == MergeStart /\ [][MergeNext]_vars

\* two students registered, no request under way
ExportSpec == MergeStart /\ [][ExportNext]_vars

\* the handler is one chain of awaited steps on the event loop, and every
\* download ends, at the latest with the timeout of 10 seconds
ExportFairSpec ==
    /\ ExportSpec
    /\ WF_vars(\E outcome \in FetchOutcomes : ExportRow(outcome))
    /\ WF_vars(ExportEnd)

\* every collection empty, no request under way
Init == PinInit /\ StudentInit /\ ProfileInit /\ RecordInit

ResultSpec == Init /\ [][ResultNext]_vars

PaymentSpec == Init /\ [][PaymentNext]_vars

DocumentSpec == Init /\ [][DocumentNext]_vars

RegisterSpec == Init /\ [][RegisterNext]_vars

NormalizeStart ==
    PinInit /\ StudentInit /\ ProfileInit /\ ResultInit /\ PaymentInit /\ DocumentInit
        /\ NormalizeInit /\ ExportInit

NormalizeNext == Normalize

NormalizeSpec == NormalizeStart /\ [][NormalizeNext]_vars

PinSpec == Init /\ [][PinNext]_vars

StudentSpec == Init /\ [][StudentNext]_vars

\* =================================================================== claims

\* C1: under any interleaving, a pin record is redeemed with success at most
\* once: no two requests that held the same pin both report success.
C1_RedeemedAtMostOnce ==
    \A r1, r2 \in Reqs :
        (r1 # r2 /\ req[r1].resp = "ok" /\ req[r2].resp = "ok")
            => req[r1].validPin.id # req[r2].validPin.id

\* C2: the CourseRegistration collection holds at most one document for each
\* (matricNumber, courseCode) pair.
C2_OneRegistrationPerPair ==
    \A g1, g2 \in courseRegs :
        (g1.matricNumber = g2.matricNumber /\ g1.courseCode = g2.courseCode)
            => g1.id = g2.id

\* C4: a stored pin whose used flag is true is still used in the next state
\* if it is still stored: no step takes a pin from used back to unused.
C4_UsedIsTerminal ==
    [][\A p \in coursePins : p.used =>
          \A q \in coursePins' : q.id = p.id => q.used]_vars

\* C4 witness: a pin was consumed by a registration, the registration was
\* deleted afterwards and the pin is still stored and still used.
C4_Witness ==
    \E r \in Reqs :
        /\ req[r].kind = "register" /\ req[r].resp = "ok"
        /\ ~(\E g \in courseRegs : g.id = req[r].newReg.id)
        /\ \E p \in coursePins : p.id = req[r].validPin.id /\ p.used

\* C5: a course-register request creates a registration or marks a pin only
\* for a pin whose stored courseCode equals the requested courseCode, and every
\* registration carries the courseCode of the pin it consumed.
C5_PinCourseMatches ==
    /\ \A r \in Reqs :
          (req[r].kind = "register" /\ (req[r].newReg # NoReg \/ req[r].resp = "ok"))
              => /\ req[r].validPin.courseCode = req[r].body.courseCode
                 /\ req[r].validPin.pin = req[r].body.pin
                 /\ req[r].newReg.courseCode = req[r].validPin.courseCode
                 /\ \A p \in coursePins :
                       p.id = req[r].validPin.id =>
                           p.courseCode = req[r].body.courseCode
    /\ \A g \in courseRegs : \E r \in Reqs : req[r].newReg = g

\* C5 witness: a request was turned down as invalid although the presented
\* code is stored and unused, for another course.
C5_Witness ==
    \E r \in Reqs :
        /\ req[r].kind = "register" /\ req[r].resp = "invalid_pin"
        /\ req[r].newReg = NoReg
        /\ \E p \in coursePins :
              p.pin = req[r].body.pin /\ ~p.used /\ p.courseCode # req[r].body.courseCode

\* the request r takes a step while the pin it presents is stored and was
\* redeemed with success before r arrived
LateStep(r) ==
    /\ req'[r] # req[r]
    /\ req'[r].late # 0
    /\ \E p \in coursePins : p.id = req'[r].late

\* C6 (as stated): after a successful redemption of a pin, every later request
\* presenting it is answered already-used/invalid and changes nothing.
C6_LaterAttemptInvalid ==
    [][\A r \in Reqs : LateStep(r) =>
          /\ coursePins' = coursePins /\ courseRegs' = courseRegs
          /\ req'[r].resp \in {"none", "already_used", "invalid_pin"}]_vars

\* C6 (amended): such a request changes nothing and is answered already-used
\* or invalid, or already-registered when the student holds the course.
C6_LaterAttemptRejected ==
    [][\A r \in Reqs : LateStep(r) =>
          /\ coursePins' = coursePins /\ courseRegs' = courseRegs
          /\ req'[r].resp \in {"none", "already_used", "invalid_pin", "already_registered"}
          /\ req'[r].resp = "already_registered" =>
                \E g \in courseRegs : /\ g.matricNumber = req'[r].body.matricNumber
                                      /\ g.courseCode = req'[r].body.courseCode]_vars

\* C6 witness: a course-register request of a student who does not hold the
\* course presented a redeemed, still stored pin and was answered invalid.
C6_Witness ==
    \E r \in Reqs :
        /\ req[r].kind = "register" /\ req[r].late # 0 /\ req[r].resp = "invalid_pin"
        /\ \E p \in coursePins : p.id = req[r].late /\ p.courseCode = req[r].body.courseCode

\* C7: a complete course-register request arriving while a registration for
\* its (matricNumber, courseCode) exists is answered already-registered in one
\* step that changes neither the registrations nor the pins.
C7_AlreadyRegistered ==
    [][\A r \in Reqs :
          (/\ req[r].pc = "idle" /\ req'[r].kind = "register"
           /\ \E g \in courseRegs : /\ g.matricNumber = req'[r].body.matricNumber
                                    /\ g.courseCode = req'[r].body.courseCode)
          => /\ req'[r].pc = "done" /\ req'[r].resp = "already_registered"
             /\ courseRegs' = courseRegs /\ coursePins' = coursePins]_vars

\* C7 witness: the rejected request presented a stored, unused pin of the course.
C7_Witness ==
    \E r \in Reqs :
        /\ req[r].resp = "already_registered"
        /\ \E p \in coursePins :
              p.pin = req[r].body.pin /\ p.courseCode = req[r].body.courseCode /\ ~p.used

\* C9: a finished course-register request that did not report success leaves
\* no registration of its own behind.
C9_BothWritesOrNeither ==
    \A r \in Reqs :
        (req[r].kind = "register" /\ req[r].pc = "done" /\ req[r].resp # "ok")
            => ~(\E g \in courseRegs : g.id = req[r].newReg.id)

\* two addresses that differ at most in letter case and surrounding whitespace
SameAddress(a, b) == toLowerCase(trim(a)) = toLowerCase(trim(b))

\* C3: in every reachable state no two Student records have the same
\* normalized email and no two have the same normalized phone, concurrent
\* registrations included.
C3_UniqueEmailAndPhone ==
    \A s1, s2 \in students :
        s1.id # s2.id => s1.email # s2.email /\ s1.phone # s2.phone

\* C8: a registration request that passes validation and whose email differs
\* from a stored student's email only in letter case or surrounding whitespace
\* is answered 409 and leaves the Student collection as it was.
C8_DuplicateEmailRejected ==
    [][\A r \in Reqs :
          ( /\ sreq[r].pc \in {"idle", "done"}
            /\ sreq'[r] # sreq[r]
            /\ sreq'[r].body # NoStudentBody
            /\ \E s \in students : SameAddress(s.email, sreq'[r].body.email) )
          => (sreq'[r].resp = "409" /\ students' = students)]_vars

C8_Witness ==
    \E r \in Reqs : \E s \in students :
        /\ sreq[r].resp = "409"
        /\ SameAddress(s.email, sreq[r].body.email)
        /\ s.email # sreq[r].body.email
        /\ \A t \in students : t.phone # sreq[r].trimmedPhone

\* the composite takes the student's value for every field of both records and
\* the profile's value for every field of the profile alone
MergedAsStated(result, profile, student) ==
    /\ \A k \in (DOMAIN profile) \cap (DOMAIN student) :
          k \in DOMAIN result /\ result[k] = student[k]
    /\ \A k \in (DOMAIN profile) \ (DOMAIN student) :
          k \in DOMAIN result /\ result[k] = profile[k]

\* the same, except that an empty department, level or matricNo shows as "N/A"
MergedWithPlaceholder(result, profile, student) ==
    /\ \A k \in (DOMAIN profile) \cap (DOMAIN student) :
          k \in DOMAIN result /\ result[k] = student[k]
    /\ \A k \in (DOMAIN profile) \ (DOMAIN student) :
          /\ k \in DOMAIN result
          /\ result[k] = IF k \in {"department", "level", "matricNo"} /\ profile[k] = Empty
                         THEN <<"N", "/", "A">> ELSE profile[k]

\* C10 as stated: for a Student and a StudentProfile with the same email, the
\* composite of GET /api/students/:id and every element of GET /api/students
\* takes the Student's value for every field of both records and the profile's
\* value for every field only the profile carries.
C10_StudentWinsProfileFills ==
    /\ (view.kind = "get" /\ view.resp = "200" /\ view.profile # NoDoc)
          => MergedAsStated(view.result, view.profile, view.student)
    /\ (view.kind = "list" /\ view.resp = "200")
          => \A i \in 1..Len(view.students) :
                view.found[i] # NoDoc
                   => MergedAsStated(view.result[i], view.found[i], view.students[i])

\* C10 amended: as above for GET /api/students/:id; an element of
\* GET /api/students does the same except that a department, level or matricNo
\* that is empty in the profile is returned as "N/A".
C10_StudentWinsProfileFillsOrPlaceholder ==
    /\ (view.kind = "get" /\ view.resp = "200" /\ view.profile # NoDoc)
          => MergedAsStated(view.result, view.profile, view.student)
    /\ (view.kind = "list" /\ view.resp = "200")
          => \A i \in 1..Len(view.students) :
                view.found[i] # NoDoc
                   => MergedWithPlaceholder(view.result[i], view.found[i],
                                            view.students[i])

C10_Witness ==
    /\ view.kind = "list" /\ view.resp = "200"
    /\ \E i \in 1..Len(view.students) :
          /\ view.found[i] # NoDoc
          /\ view.found[i].email = view.students[i].email
          /\ view.found[i].surname # view.students[i].surname
          /\ view.found[i].id # view.students[i].id
          /\ view.found[i].department = Empty
          /\ view.result[i].department = <<"N", "/", "A">>
          /\ view.result[i].surname = view.students[i].surname
          /\ view.result[i].nokPhone = view.found[i].nokPhone

\* C11: a StudentProfile whose Student is gone is still served by the merged
\* view: GET /api/students/:id for that student answers 200 with the profile's
\* fields, not 404.
C11_ProfileOnlyServed ==
    ( /\ view.kind = "get" /\ view.pc = "done"
      /\ \E s \in RegisteredStudents : \E p \in profiles :
            s.id = view.id /\ p.email = s.email )
    => view.resp = "200"

\* the grade the threshold table gives a score
GradeOf(score) ==
    CASE score >= 70 -> <<"A">>
      [] score >= 60 /\ score < 70 -> <<"B">>
      [] score >= 50 /\ score < 60 -> <<"C">>
      [] score >= 45 /\ score < 50 -> <<"D">>
      [] score >= 40 /\ score < 45 -> <<"E">>
      [] score < 40 -> <<"F">>

\* a record with a numeric score of 0..100, no grade and a course of the catalogue
GradelessScore(b) ==
    /\ b.score.kind = "number" /\ b.score.num \in 0..100
    /\ b.grade = Empty
    /\ b.fullname # Empty /\ b.matricNo # Empty
    /\ \E c \in Catalogue : SameAddress(c.code, b.courseCode)

\* C12: every numeric score of 0..100 that arrives without a grade and with a
\* course of the catalogue, as a spreadsheet row or as a single record, is
\* accepted and is stored with the grade of the threshold table.
C12_ScoreStoredWithTableGrade ==
    [][ /\ ( /\ ureq'.kind = "single" /\ ureq' # ureq /\ ureq.pc \in {"idle", "done"}
             /\ GradelessScore(ureq'.body) )
           => ( /\ ureq'.pc = "save"
                /\ ureq'.formattedResults[1].score = ureq'.body.score.num
                /\ ureq'.formattedResults[1].grade = GradeOf(ureq'.body.score.num) )
        /\ ( /\ ureq.pc = "row" /\ ureq'.pc \in {"row", "insert"}
             /\ GradelessScore(ureq'.body) )
           => LET f == ureq'.formattedResults[Len(ureq'.formattedResults)]
              IN f.score = ureq'.body.score.num /\ f.grade = GradeOf(f.score)
        /\ ( ureq.pc \in {"save", "insert"} /\ ureq'.pc = "done" )
           => /\ ureq'.resp = "200"
              /\ Cardinality(results') = Cardinality(results) + Len(ureq.formattedResults)
              /\ \A i \in 1..Len(ureq.formattedResults) :
                    \E d \in results' \ results :
                        /\ d.score = ureq.formattedResults[i].score
                        /\ d.grade = ureq.formattedResults[i].grade ]_vars

\* C13: no two Payment records ever have the same systemPaymentId, also after
\* concurrent POST /api/payments requests, and a Payment record, once created,
\* is never modified or deleted.
C13_PaymentsUniqueAppendOnly ==
    [][ /\ \A p \in payments : p \in payments'
        /\ \A p, q \in payments' : p.systemPaymentId = q.systemPaymentId => p = q ]_vars

C13_Witness ==
    /\ Cardinality(payments) = 2
    /\ \E r \in Reqs : \E p \in payments :
          /\ payreq[r].resp = "500"
          /\ ValidPayment(payreq[r].body)
          /\ payreq[r].body.systemPaymentId = p.systemPaymentId

\* C14: the Document store never holds two records for one studentId, also
\* after concurrent POST /upload-documents requests for the same student.
C14_OneBundlePerStudent ==
    \A d1, d2 \in documents : d1.studentId = d2.studentId => d1.id = d2.id

\* the matricNo the profile of the update under way would carry (Null: none)
NextMatricNo ==
    IF preq.body.matricNo # Empty THEN preq.body.matricNo
    ELSE Get(First({ p \in profiles : p.email = preq.student.email }), "matricNo")

\* another profile carries the matricNo or the supplied regNo of the update
PresentClash ==
    \E p \in profiles :
        /\ p.email # preq.student.email
        /\ \/ NextMatricNo # Null /\ Get(p, "matricNo") = NextMatricNo
           \/ preq.body.regNo # Empty /\ Get(p, "regNo") = preq.body.regNo

\* another profile carries a regNo that the update may generate
GeneratedClash ==
    \E p \in profiles : \E n \in RegRandoms :
        /\ p.email # preq.student.email
        /\ preq.body.regNo = Empty
        /\ Get(p, "regNo") = generatedRegNo(preq.body.department, n)

\* C15: regNo and matricNo are unique among the profiles that carry them: a
\* profile update is rejected only when it would give two profiles the same
\* present regNo or matricNo (and then changes nothing), so an update without
\* matricNo succeeds also when other profiles have no matricNo.
C15_UniqueWhenPresent ==
    [][ (preq.pc = "update" /\ preq'.pc = "done")
        => /\ PresentClash => (preq'.resp = "500" /\ profiles' = profiles)
           /\ preq'.resp = "500"
                 => ((PresentClash \/ GeneratedClash) /\ profiles' = profiles) ]_vars

\* the stored profile of the student of the update under way is one that this
\* very request produces
AppliedBefore ==
    LET own == First({ p \in profiles : p.email = preq.student.email })
    IN /\ own # NoDoc
       /\ \E n \in RegRandoms :
             Spread(own, ProfileSet(preq.body, preq.student,
                                    IF preq.body.regNo = Empty
                                    THEN generatedRegNo(preq.body.department, n)
                                    ELSE preq.body.regNo)) = own

\* C16: POST /api/profile/update is idempotent: a request applied to the store
\* that the same request has produced leaves every profile as it is, regNo
\* included.
C16_UpsertIdempotent ==
    [][ (preq.pc = "update" /\ preq'.pc = "done" /\ AppliedBefore)
        => profiles' = profiles ]_vars

\* a string without surrounding whitespace and without upper-case letters
TrimmedLowerCase(e) ==
    /\ e # Empty => (e[1] \notin Whitespace /\ e[Len(e)] \notin Whitespace)
    /\ \A i \in 1..Len(e) : \A j \in 1..Len(Uppers) : e[i] # Uppers[j]

\* C17: normalizeEmail has a value for every string, the value is trimmed and
\* lower-case, and normalizeEmail of a value of normalizeEmail is that value.
C17_NormalizeIdempotent ==
    [][ /\ emailApplied' = emailApplied + 1
        /\ TrimmedLowerCase(emailOut')
        /\ emailApplied >= 1 => emailOut' = emailOut ]_vars

C17_Witness ==
    /\ emailApplied = 2
    /\ Len(emailIn) = MaxEmailLen
    /\ emailIn[1] = " " /\ emailIn[2] = "A" /\ emailIn[Len(emailIn)] = " "
    /\ emailOut # emailIn /\ emailOut # Empty

\* the step answers the request b in slot r as the order of the checks demands
OrderedAnswer(r, b) ==
    LET missing == \E f \in Required : b[f] = Empty
        registered == \E g \in courseRegs :
                         g.matricNumber = b.matricNumber /\ g.courseCode = b.courseCode
    IN /\ missing => (req'[r].resp = "400" /\ req'[r].pc = "done")
       /\ (~missing /\ registered)
             => (req'[r].resp = "already_registered" /\ req'[r].pc = "done")
       /\ (~missing /\ ~registered) => req'[r].pc = "findPin"
       /\ coursePins' = coursePins /\ courseRegs' = courseRegs

\* C18: POST /api/course-register checks (1) the required fields, (2) that the
\* student has no registration for the course, (3) that the pin is a valid
\* unused pin of the course, in this order: the first check that fails gives the
\* answer, whatever the later checks would say, and the request then reads and
\* writes nothing more.
C18_ChecksInOrder ==
    [][ /\ \A r \in Reqs :
              (req[r].pc = "idle" /\ req'[r].kind = "register")
                 => \A b \in TitledBodies :
                       OrderedAnswer(r, b) \/ ~RegisterFindAlready(r, b)
        /\ \A r \in Reqs :
              (req[r].kind = "register" /\ req[r].pc = "findPin" /\ req'[r] # req[r])
                 => /\ coursePins' = coursePins /\ courseRegs' = courseRegs
                    /\ IF \E p \in coursePins : /\ p.pin = req[r].body.pin
                                                /\ p.courseCode = req[r].body.courseCode
                                                /\ ~p.used
                       THEN req'[r].pc = "saveReg"
                       ELSE req'[r].resp = "invalid_pin" /\ req'[r].pc = "done"
        /\ \A r \in Reqs :
              (req[r].kind = "register" /\ req[r].pc = "done") => req'[r] = req[r] ]_vars

C18_Witness ==
    \E r \in Reqs :
        /\ req[r].kind = "register" /\ req[r].resp = "already_registered"
        /\ \A p \in coursePins :
              ~(p.pin = req[r].body.pin /\ p.courseCode = req[r].body.courseCode /\ ~p.used)

\* C19: a generate request for count pins either stores exactly count new
\* unused pins with pairwise distinct codes that no stored pin carries, or
\* stores no pin at all.
C19_GenerateAllOrNothing ==
    [][ coursePins' # coursePins =>
          \A c \in CourseCodes, t \in CourseTitles, a \in 0..MaxCount :
             \A rs \in [1..(IF a = 0 THEN 1 ELSE a) -> Randoms] :
                Generate(c, t, a, rs) =>
                   LET new == coursePins' \ coursePins
                   IN \/ new = {}
                      \/ /\ Cardinality(new) = (IF a = 0 THEN 1 ELSE a)
                         /\ \A p \in new : ~p.used
                         /\ \A p \in new : \A q \in coursePins' :
                               p.pin = q.pin => p.id = q.id ]_vars

\* C20: a step that removes pins (delete-all or delete by id) leaves every
\* registration stored as it was, pinUsed included, also when the pin it names
\* is among the removed ones.
C20_PinDeletionKeepsRegistrations ==
    [][ (\E p \in coursePins : \A q \in coursePins' : q.id # p.id)
        => courseRegs' = courseRegs ]_vars

C20_Witness ==
    \E g \in courseRegs :
        /\ g.pinUsed # Empty
        /\ \A p \in coursePins : p.pin # g.pinUsed
        /\ \E r \in Reqs : req[r].resp = "ok" /\ req[r].newReg.id = g.id

\* a course code that equals, letter case aside, no code of the catalogue
Unresolvable(courseCode) ==
    \A c \in Catalogue : toLowerCase(c.code) # toLowerCase(courseCode)

\* C21: a spreadsheet upload is all-or-nothing with respect to its course
\* codes: no Result is stored while the rows are read or when the request
\* is answered 400, and the batch a spreadsheet upload stores has one Result
\* per row, none of them with a course code that matches no catalogue course
C21_BulkAllOrNothing ==
    [][ureq.kind = "bulk" =>
          /\ (ureq.pc = "row" \/ ureq'.resp = "400") => results' = results
          /\ results' # results =>
                /\ Cardinality(results' \ results) = Len(ureq.formattedResults)
                /\ \A d \in results' \ results : ~Unresolvable(d.courseCode)]_vars

\* C22: a request rejected because it would break a uniqueness constraint
\* is never answered with the internal-error response 500, also when its
\* own check passed and the store rejected its write: a well-formed payment
\* whose save meets a stored payment with its systemPaymentId does not end
\* with status 500
C22_UniquenessRejectedAsConflict ==
    [][\A r \in Reqs :
          ( /\ payreq[r].pc = "save"
            /\ payreq'[r].pc = "done"
            /\ ValidPayment(payreq[r].body)
            /\ ~PaymentIdFree(payments, payreq[r].body.systemPaymentId) )
          => payreq'[r].resp # "500"]_vars

\* the export has ended with the document, one row per student of the list
\* in the order of the list, a placeholder in every row whose download
\* failed or timed out
ExportComplete ==
    /\ xreq.pc = "done"
    /\ xreq.resp = "200"
    /\ Len(xreq.rows) = Len(xreq.found)
    /\ \A i \in 1..Len(xreq.rows) :
          /\ xreq.rows[i].student = xreq.found[i].id
          /\ xreq.rows[i].fetch \in {"failed", "timeout"}
                => xreq.rows[i].photo = "placeholder"

\* C23: GET /api/students/export/pdf runs to completion over the whole
\* student list: an export under way ends with one row per student, the row
\* of a student whose image download failed or timed out drawn with the
\* placeholder, and is never aborted because of such a download
C23_ExportCompletes == (xreq.pc = "row") ~> ExportComplete

\* an export has ended in which the download of the first row failed and a
\* second row follows it
C23_Witness ==
    /\ ExportComplete
    /\ Len(xreq.rows) = 2
    /\ xreq.rows[1].fetch \in {"failed", "timeout"}

\* C24: in POST /api/students/register the checks come before every write
\* of the request, to the Student collection and to the object storage: a
\* request answered 409 as a duplicate, or 400 for missing or malformed
\* fields, has stored no student and no file
C24_RejectedWritesNothing ==
    [][\A r \in Reqs :
          ( /\ sreq[r].pc \in {"idle", "done"}
            /\ sreq'[r].pc = "done"
            /\ sreq'[r].resp \in {"400", "409"}
            /\ \E body \in StudentBodies : RegisterFindDup(r, body) )
          => students' = students /\ uploads' = uploads]_vars

\* C25: whatever pins were generated and deleted and whatever was registered
\* and unregistered, no two CourseRegistration records that exist together
\* carry the same pinUsed: one pin code admits one student to one course,
\* also when the code of a deleted pin is drawn again
C25_OneRegistrationPerPinCode ==
    \A a, b \in courseRegs : a.pinUsed = b.pinUsed => a.id = b.id

\* C26: a POST /upload-documents request for a student who has a bundle
\* changes only what it supplies: the update keeps the bundle and its
\* student, the file reference of a field sent without file, the JAMB
\* registration number and score when not supplied, the matric number when
\* not supplied and the O-level list when the supplied list is empty, and
\* leaves every other bundle as it was
C26_UpdateKeepsUnsupplied ==
    [][\A r \in Reqs :
          ( /\ dreq[r].pc = "save"
            /\ dreq'[r].pc = "done"
            /\ dreq[r].existingDoc # 0 )
          => \A d \in documents :
                IF d.id # dreq[r].existingDoc THEN d \in documents'
                ELSE \E e \in documents' :
                       /\ e.id = d.id
                       /\ e.studentId = d.studentId
                       /\ dreq[r].body.nin = Empty => e.nin = d.nin
                       /\ dreq[r].body.jambRegNo = Empty => e.jambRegNo = d.jambRegNo
                       /\ dreq[r].body.jambScore = Empty => e.jambScore = d.jambScore
                       /\ dreq[r].body.matricNumber = Empty
                             => e.matricNumber = d.matricNumber
                       /\ dreq[r].body.olevelData = <<>> => e.oLevelData = d.oLevelData]_vars

\* a bundle that no single request produces: its matric number and its file
\* came with two requests, the second of which kept what the first stored
C26_Witness ==
    \E d \in documents :
        /\ d.matricNumber = <<"m", "1">>
        /\ d.nin = uploadedUrl(<<"f">>)
        /\ d.jambRegNo = Empty
        /\ d.oLevelData = <<>>
====
